---- MODULE Spec2Model ----
(***************************************************************************)
(* A model of the RAG API server (src/server.py) and of the FAISS          *)
(* retriever class (src/model.py).                                         *)
(*                                                                         *)
(* Text is modelled as a sequence of one-character strings, so that        *)
(* str.split, str.startswith and str.strip are computed character by       *)
(* character.  Every HTTP handler is one atomic action: the handlers read  *)
(* rag_system_ready only before their first await and only                 *)
(* build_vector_database (which contains no await) writes it.              *)
(***************************************************************************)
EXTENDS Integers, Sequences, FiniteSets, TLC

VARIABLES
    main,               \* which script runs as the process: server.py or model.py
    started,            \* server.py: the lifespan start-up code has run
    rag_system_ready,   \* server.py:18, the global readiness flag
    chroma_exists,      \* os.path.exists(CHROMA): the persisted index directory
    rag,                \* model.py: the EnhancedMathRAGSystem object's fields
    history,            \* what has happened since the process began (not program state)
    last                \* the request being answered: its input, the calls made, the response

vars == <<main, started, rag_system_ready, chroma_exists, rag, history, last>>

(***************************************************************************)
(* Bounds of the model.                                                    *)
(***************************************************************************)
MaxLines == 3       \* lines of a generated raw model output
BatchOver == 1      \* how far beyond the batch limit the batch sizes go
MaxFullBatch == 4   \* batch sizes up to which every subset of questions may raise
MaxData == 3        \* entries of the retriever's dataset
MaxK == 4           \* the largest k asked of the retriever
MaxNorm == 2        \* the largest L2 norm of a raw embedding

(***************************************************************************)
(* Text: str.split('\n'), str.startswith, str.strip, str concatenation.    *)
(***************************************************************************)
\* a text is a sequence of one-character strings
NL == "\n"

\* the characters str.strip() removes
Whitespace == {" ", "\n", "\t", "\r"}

RECURSIVE SplitFrom(_, _, _, _)
SplitFrom(s, sep, i, cur) ==
    IF i > Len(s) THEN <<cur>>
    ELSE IF s[i] = sep THEN <<cur>> \o SplitFrom(s, sep, i + 1, <<>>)
    ELSE SplitFrom(s, sep, i + 1, Append(cur, s[i]))

\* s.split(sep) for a one-character separator
Split(s, sep) == SplitFrom(s, sep, 1, <<>>)

\* line.startswith(prefix)
StartsWith(line, prefix) ==
    /\ Len(line) >= Len(prefix)
    /\ SubSeq(line, 1, Len(prefix)) = prefix

RECURSIVE LStrip(_)
LStrip(s) == IF s # <<>> /\ Head(s) \in Whitespace THEN LStrip(Tail(s)) ELSE s

RECURSIVE RStrip(_)
RStrip(s) ==
    IF s # <<>> /\ s[Len(s)] \in Whitespace THEN RStrip(SubSeq(s, 1, Len(s) - 1)) ELSE s

\* s.strip()
Strip(s) == RStrip(LStrip(s))

\* the three section markers of the standard-mode parser
ANSWER_MARK == <<"A", "N", "S", "W", "E", "R", ":">>
SOURCES_MARK == <<"S", "O", "U", "R", "C", "E", "S", ":">>
EXCERPTS_MARK ==
    <<"R", "E", "L", "E", "V", "A", "N", "T", " ", "E", "X", "C", "E", "R", "P", "T", "S", ":">>

(***************************************************************************)
(* The standard-mode parser: the loop of ask_question (server.py:143-170), *)
(* repeated verbatim in process_single_question (server.py:206-233).       *)
(***************************************************************************)
ParseInit == [section |-> "", answer |-> <<>>, sources |-> <<>>, excerpts |-> <<>>]

\* ParseStep without the `continue`: a marker line is appended to its section
ParseStepKeepsMarkerLine(st, line) ==
    LET sec == IF StartsWith(line, ANSWER_MARK) THEN "answer"
               ELSE IF StartsWith(line, SOURCES_MARK) THEN "sources"
               ELSE IF StartsWith(line, EXCERPTS_MARK) THEN "excerpts"
               ELSE st.section
    IN  IF sec = "answer" THEN [st EXCEPT !.section = sec, !.answer = @ \o line \o <<NL>>]
        ELSE IF sec = "sources"
        THEN [st EXCEPT !.section = sec, !.sources = @ \o line \o <<NL>>]
        ELSE IF sec = "excerpts"
        THEN [st EXCEPT !.section = sec, !.excerpts = @ \o line \o <<NL>>]
        ELSE st

\* ParseStep with a marker line that starts its section afresh
ParseStepRestartsSection(st, line) ==
    IF StartsWith(line, ANSWER_MARK) THEN [st EXCEPT !.section = "answer", !.answer = <<>>]
    ELSE IF StartsWith(line, SOURCES_MARK)
    THEN [st EXCEPT !.section = "sources", !.sources = <<>>]
    ELSE IF StartsWith(line, EXCERPTS_MARK)
    THEN [st EXCEPT !.section = "excerpts", !.excerpts = <<>>]
    ELSE IF st.section = "answer" THEN [st EXCEPT !.answer = @ \o line \o <<NL>>]
    ELSE IF st.section = "sources" THEN [st EXCEPT !.sources = @ \o line \o <<NL>>]
    ELSE IF st.section = "excerpts" THEN [st EXCEPT !.excerpts = @ \o line \o <<NL>>]
    ELSE st

\* one iteration of `for line in lines`
ParseStep(st, line) ==
    IF StartsWith(line, ANSWER_MARK) THEN [st EXCEPT !.section = "answer"]
    ELSE IF StartsWith(line, SOURCES_MARK) THEN [st EXCEPT !.section = "sources"]
    ELSE IF StartsWith(line, EXCERPTS_MARK) THEN [st EXCEPT !.section = "excerpts"]
    ELSE IF st.section = "answer" THEN [st EXCEPT !.answer = @ \o line \o <<NL>>]
    ELSE IF st.section = "sources" THEN [st EXCEPT !.sources = @ \o line \o <<NL>>]
    ELSE IF st.section = "excerpts" THEN [st EXCEPT !.excerpts = @ \o line \o <<NL>>]
    ELSE st

RECURSIVE ParseLoop(_, _, _)
ParseLoop(lines, i, st) ==
    IF i > Len(lines) THEN st ELSE ParseLoop(lines, i + 1, ParseStep(st, lines[i]))

\* the dict built after the loop: each section stripped
ParseSections(text) ==
    LET st == ParseLoop(Split(text, NL), 1, ParseInit)
    IN  [answer |-> Strip(st.answer),
         sources |-> Strip(st.sources),
         excerpts |-> Strip(st.excerpts)]

(***************************************************************************)
(* Values that cross the server's interface.                               *)
(***************************************************************************)
\* Python's None, where a str is optional; no str value equals it
None == "<None>"

\* an empty dict {}
EmptyDict == [k \in {} |-> <<>>]

\* the request types: the three the handlers name, one they do not, '' and null
Types == {"standard", "numerical", "query", "other", "", None}

\* what a call of an imported function does: it raises, or it returns a value
Raise(msg) == [kind |-> "raise", msg |-> msg]
Return(v) == [kind |-> "return", value |-> v]

\* a returned value: a str, or another object whose str() is text
StrVal(t) == [isStr |-> TRUE, text |-> t]
ObjVal(t) == [isStr |-> FALSE, text |-> t]

\* one call of an imported function, as the handler made it
Call(fn, arg, outcome) ==
    [fn |-> fn, arg |-> arg, raised |-> outcome.kind = "raise", outcome |-> outcome]

\* raise HTTPException(status_code, detail)
HTTPException(status_code, detail) ==
    [kind |-> "HTTPException", status_code |-> status_code, detail |-> detail]

\* the class QuestionResponse: pydantic validates `type: str`, so a None type
\* raises ValidationError instead of building the record
QuestionResponse(success, question, type, result, error) ==
    IF type = None
    THEN [kind |-> "raise", exc |-> "ValidationError"]
    ELSE [kind |-> "QuestionResponse", success |-> success, question |-> question,
          type |-> type, result |-> result, error |-> error]

\* the class BatchResponse
BatchResponse(success, total_questions, results) ==
    [kind |-> "BatchResponse", success |-> success,
     total_questions |-> total_questions, results |-> results]

\* no exception raised: the handler goes on
NoException == [kind |-> "none"]

NAME_ERROR == "name 'ask_numerical_question' is not defined"
NOT_READY == "RAG system not ready. Build database first."

(***************************************************************************)
(* POST /ask: ask_question.  `outcome` is what the one imported function   *)
(* the request reaches does when called.  The result is the response (or   *)
(* the exception leaving the handler) and the calls made.                  *)
(***************************************************************************)
\* the try body up to parsed_res: the value, or the exception raised
AskBody(request, outcome) ==
    IF request.type = "numerical"
    THEN \* ask_numerical_question is not a name of the module: NameError
         [exc |-> TRUE, msg |-> NAME_ERROR, calls |-> <<>>]
    ELSE IF request.type = "query"
    THEN LET c == <<Call("query_database", request.question, outcome)>>
         IN  IF outcome.kind = "raise"
             THEN [exc |-> TRUE, msg |-> outcome.msg, calls |-> c]
             ELSE [exc |-> FALSE, parsed |-> [raw_output |-> outcome.value], calls |-> c]
    ELSE LET c == <<Call("ask_questions", request.question, outcome)>>
         IN  IF outcome.kind = "raise"
             THEN [exc |-> TRUE, msg |-> outcome.msg, calls |-> c]
             ELSE \* res.split or str(res).split: neither raises, so the
                  \* inner except branch is never taken
                  [exc |-> FALSE, parsed |-> ParseSections(outcome.value.text), calls |-> c]

\* AskRejection without the readiness check
AskRejectionBlankOnly(request) ==
    IF Strip(request.question) = <<>>
    THEN HTTPException(400, "Question cannot be empty")
    ELSE NoException

\* the two checks before the try: readiness, then the blank question
AskRejection(request) ==
    IF ~rag_system_ready THEN HTTPException(503, NOT_READY)
    ELSE IF Strip(request.question) = <<>>
    THEN HTTPException(400, "Question cannot be empty")
    ELSE NoException

ask_question(request, outcome) ==
    IF AskRejection(request) # NoException
    THEN [response |-> AskRejection(request), calls |-> <<>>]
    ELSE LET body == AskBody(request, outcome)
             ok == IF body.exc THEN [kind |-> "raise", exc |-> "Exception"]
                   ELSE QuestionResponse(TRUE, request.question, request.type,
                                         body.parsed, None)
             msg == IF body.exc THEN body.msg ELSE "validation error for QuestionResponse"
         IN  IF ok.kind # "raise"
             THEN [response |-> ok, calls |-> body.calls]
             ELSE \* except Exception as e: the record built here may raise too
                  [response |-> QuestionResponse(FALSE, request.question, request.type,
                                                 EmptyDict, msg),
                   calls |-> body.calls]

(***************************************************************************)
(* process_single_question and POST /ask/batch: ask_batch_questions.       *)
(***************************************************************************)
process_single_question(question, question_type, outcome) ==
    LET ok(parsed, c) ==
            [entry |-> [question |-> question, success |-> TRUE,
                        result |-> parsed, type |-> question_type],
             calls |-> c]
        failed(msg, c) ==
            [entry |-> [question |-> question, success |-> FALSE,
                        error |-> msg, type |-> question_type],
             calls |-> c]
    IN  IF question_type = "numerical"
        THEN failed(NAME_ERROR, <<>>)
        ELSE IF question_type = "query"
        THEN LET c == <<Call("query_database", question, outcome)>>
             IN  IF outcome.kind = "raise" THEN failed(outcome.msg, c)
                 ELSE ok([raw_output |-> outcome.value], c)
        ELSE LET c == <<Call("ask_questions", question, outcome)>>
             IN  IF outcome.kind = "raise" THEN failed(outcome.msg, c)
                 ELSE IF outcome.value.isStr
                 THEN ok(ParseSections(outcome.value.text), c)
                 ELSE \* result.split raises AttributeError: the raw output is kept
                      ok([raw_output |-> outcome.value], c)

MAX_BATCH == 10

RECURSIVE BatchLoop(_, _, _, _, _)
BatchLoop(questions, question_type, oracle, i, acc) ==
    IF i > Len(questions) THEN acc
    ELSE LET r == process_single_question(questions[i], question_type, oracle[i])
         IN  BatchLoop(questions, question_type, oracle, i + 1,
                       [results |-> Append(acc.results, r.entry),
                        calls |-> acc.calls \o r.calls])

\* BatchSizeRejection with the limit off by one: a batch of MAX_BATCH is refused
BatchSizeRejectionOffByOne(questions) ==
    IF Len(questions) = 0
    THEN HTTPException(400, "Questions array cannot be empty")
    ELSE IF Len(questions) >= MAX_BATCH
    THEN HTTPException(400, "Maximum 10 questions allowed per batch")
    ELSE NoException

\* the two checks of the batch size
BatchSizeRejection(questions) ==
    IF Len(questions) = 0
    THEN HTTPException(400, "Questions array cannot be empty")
    ELSE IF Len(questions) > MAX_BATCH
    THEN HTTPException(400, "Maximum 10 questions allowed per batch")
    ELSE NoException

ask_batch_questions(request, oracle) ==
    IF ~rag_system_ready
    THEN [response |-> HTTPException(503, NOT_READY), calls |-> <<>>]
    ELSE IF BatchSizeRejection(request.questions) # NoException
    THEN [response |-> BatchSizeRejection(request.questions), calls |-> <<>>]
    ELSE LET question_type ==
                 IF request.type = None \/ request.type = "" THEN "standard"
                 ELSE request.type
             done == BatchLoop(request.questions, question_type, oracle, 1,
                               [results |-> <<>>, calls |-> <<>>])
         IN  [response |-> BatchResponse(TRUE, Len(request.questions), done.results),
              calls |-> done.calls]

(***************************************************************************)
(* POST /search: search_documents.  The detail of the 500 response is      *)
(* "Search failed: " followed by the exception's message; the message is   *)
(* left out here.                                                          *)
(***************************************************************************)
search_documents(request, outcome) ==
    IF ~rag_system_ready
    THEN [response |-> HTTPException(500, NOT_READY), calls |-> <<>>]
    ELSE IF Strip(request.query) = <<>>
    THEN [response |-> HTTPException(400, "Query cannot be empty."), calls |-> <<>>]
    ELSE LET c == <<Call("query_database", request.query, outcome)>>
         IN  IF outcome.kind = "raise"
             THEN [response |-> HTTPException(500, "Search failed"), calls |-> c]
             ELSE [response |-> [kind |-> "dict", success |-> TRUE,
                                 query |-> request.query, results |-> outcome.value],
                   calls |-> c]

(***************************************************************************)
(* Start-up, GET /health and POST /database/build.                         *)
(***************************************************************************)
\* lifespan, up to its yield: the flag is set when the index directory exists
lifespan == IF chroma_exists THEN TRUE ELSE rag_system_ready

\* health_check
health_check == [kind |-> "dict", status |-> "OK", rag_system_ready |-> rag_system_ready]

\* what build_database() can do: build the index, or raise before the prior
\* index is deleted, after it is deleted, or after the new directory is created
BuildOutcomes == {"built", "failed_before_delete", "failed_after_delete", "failed_partial"}

\* os.path.exists(CHROMA) after build_database()
ChromaAfterBuild(outcome) ==
    CASE outcome = "built" -> TRUE
      [] outcome = "failed_before_delete" -> chroma_exists
      [] outcome = "failed_after_delete" -> FALSE
      [] outcome = "failed_partial" -> TRUE

\* build_vector_database with an except branch that clears the flag
build_clears_flag_on_failure(outcome) ==
    IF outcome = "built"
    THEN [ready |-> TRUE,
          response |-> [kind |-> "dict", success |-> TRUE,
                        message |-> "Database built successfully"]]
    ELSE [ready |-> FALSE,
          response |-> HTTPException(500, "Failed to build database")]

\* build_vector_database: the flag is assigned only after build_database()
\* returned; the except branch raises HTTPException and assigns nothing (the
\* exception's message, appended to the detail, is left out)
build_vector_database(outcome) ==
    IF outcome = "built"
    THEN [ready |-> TRUE,
          response |-> [kind |-> "dict", success |-> TRUE,
                        message |-> "Database built successfully"]]
    ELSE [ready |-> rag_system_ready,
          response |-> HTTPException(500, "Failed to build database")]

(***************************************************************************)
(* model.py: EnhancedMathRAGSystem.                                        *)
(***************************************************************************)
MODEL_NAME == "all-MiniLM-L6-v2"

Min(a, b) == IF a < b THEN a ELSE b

\* f"Question: {text}"
Prefixed(text) == [prefix |-> "Question: ", body |-> text]

\* self.model.encode(texts): one raw embedding per text, of the norm the model gives
encode(texts, norms) ==
    [i \in 1..Len(texts) |-> [text |-> texts[i], model |-> MODEL_NAME, norm |-> norms[i]]]

\* normalize_L2 that leaves the rows as they are
normalize_L2_noop(vectors) == vectors

\* faiss.normalize_L2, in place: every (non-zero) row is scaled to norm 1
normalize_L2(vectors) ==
    [i \in 1..Len(vectors) |-> [vectors[i] EXCEPT !.norm = IF @ = 0 THEN 0 ELSE 1]]

\* __init__: no index, no embeddings
NewRag(dataset) ==
    [dataset |-> dataset, index |-> [is_none |-> TRUE, vectors |-> <<>>],
     embeddings |-> <<>>]

\* create_vector_index: the object after the call, and whether the call raised
create_vector_index(self, norms) ==
    LET texts == [i \in 1..Len(self.dataset) |-> Prefixed(self.dataset[i])]
        raw == encode(texts, norms)
        normalized == normalize_L2(raw)
    IN  IF Len(raw) = 0
        THEN \* encode([]) is a one-dimensional empty array: shape[1] raises
             [self |-> [self EXCEPT !.embeddings = raw],
              response |-> [kind |-> "raise", exc |-> "IndexError"]]
        ELSE [self |-> [self EXCEPT !.embeddings = normalized,
                                    !.index = [is_none |-> FALSE, vectors |-> normalized]],
              response |-> [kind |-> "return"]]

\* index.search(x, k): the labels of the k nearest vectors, best first, in the
\* order `ranking` the similarity gives; -1 where the index has no more vectors
FaissSearch(ntotal, k, ranking) ==
    [i \in 1..k |-> IF i <= ntotal THEN ranking[i] - 1 ELSE -1]

\* self.dataset[idx] for an int idx: a negative idx counts from the end
GetItem(dataset, idx) ==
    IF idx >= 0 /\ idx < Len(dataset) THEN [ok |-> TRUE, item |-> dataset[idx + 1]]
    ELSE IF idx < 0 /\ -idx <= Len(dataset)
    THEN [ok |-> TRUE, item |-> dataset[Len(dataset) + idx + 1]]
    ELSE [ok |-> FALSE, item |-> 0]

\* retrieve_similar_problems after its check: encode, normalize, search, and
\* one result per label returned
RetrieveBody(self, query, k, norm, ranking) ==
    LET raw == encode(<<Prefixed(query)>>, <<norm>>)
        query_embedding == normalize_L2(raw)
        labels == FaissSearch(Len(self.index.vectors), k, ranking)
        calls == <<[fn |-> "encode", arg |-> Prefixed(query)],
                   [fn |-> "search", arg |-> query_embedding[1]]>>
        results == [i \in 1..k |->
                       [rank |-> i, label |-> labels[i],
                        item |-> GetItem(self.dataset, labels[i]).item]]
    IN  IF \E i \in 1..k : ~GetItem(self.dataset, labels[i]).ok
        THEN [response |-> [kind |-> "raise", exc |-> "IndexError"], calls |-> calls]
        ELSE [response |-> [kind |-> "return", results |-> results], calls |-> calls]

\* retrieve_similar_problems without the check of self.index: the query is
\* encoded before None.search raises
retrieve_unchecked(self, query, k, norm, ranking) ==
    IF self.index.is_none
    THEN [response |-> [kind |-> "raise", exc |-> "AttributeError"],
          calls |-> <<[fn |-> "encode", arg |-> Prefixed(query)]>>]
    ELSE RetrieveBody(self, query, k, norm, ranking)

\* retrieve_similar_problems
retrieve_similar_problems(self, query, k, norm, ranking) ==
    IF self.index.is_none
    THEN [response |-> [kind |-> "raise", exc |-> "ValueError"], calls |-> <<>>]
    ELSE RetrieveBody(self, query, k, norm, ranking)

(***************************************************************************)
(* The inputs the actions draw from.                                       *)
(***************************************************************************)
PARIS == <<"P", "a", "r", "i", "s">>
DOC1 == <<"d", "o", "c", "1">>

\* "ANSWER:\nParis\nSOURCES:\ndoc1\n"
SPEC_EXAMPLE == ANSWER_MARK \o <<NL>> \o PARIS \o <<NL>> \o SOURCES_MARK \o <<NL>> \o DOC1 \o <<NL>>

\* the lines raw outputs are made of: markers, marker lines with trailing text, a
\* marker after a space, plain text, text in whitespace, the empty line
LineTexts ==
    {ANSWER_MARK, SOURCES_MARK, EXCERPTS_MARK, ANSWER_MARK \o <<" ">> \o PARIS,
     <<" ">> \o ANSWER_MARK, <<" ">> \o DOC1 \o <<"\t">>, <<>>}

RECURSIVE JoinLines(_)
JoinLines(ls) ==
    IF Len(ls) = 0 THEN <<>>
    ELSE IF Len(ls) = 1 THEN ls[1]
    ELSE ls[1] \o <<NL>> \o JoinLines(Tail(ls))

\* "ANSWER: Paris\ndoc1\nSOURCES:\ndoc1\nANSWER:\ndoc2": text after a marker, and
\* a marker that occurs twice
DOC2 == <<"d", "o", "c", "2">>
MARKER_EXAMPLE ==
    JoinLines(<<ANSWER_MARK \o <<" ">> \o PARIS, DOC1, SOURCES_MARK, DOC1, ANSWER_MARK, DOC2>>)

RawOutputs ==
    {JoinLines(ls) : ls \in UNION {[1..n -> LineTexts] : n \in 1..MaxLines}}
        \cup {SPEC_EXAMPLE, MARKER_EXAMPLE}

\* what ask_questions / query_database do when called: raise, return a str,
\* return another object
AskOutcomes ==
    {Raise("generation failed")}
        \cup {Return(StrVal(t)) : t \in {SPEC_EXAMPLE, PARIS}}
        \cup {Return(ObjVal(t)) : t \in {PARIS}}

\* the same, with every raw output of up to MaxLines lines
ParseOutcomes == {Return(StrVal(t)) : t \in RawOutputs}

\* what query_database does when /search calls it
SearchOutcomes == {Raise("retrieval failed"), Return(ObjVal(DOC1))}

\* the questions of a batch of n whose call raises: any subset in a batch of up
\* to MaxFullBatch questions; in a larger one none, the first, the second, the
\* last, or all
RaisingSets(n) ==
    IF n <= MaxFullBatch THEN SUBSET (1..n)
    ELSE {{}, {1}, {2}, {n}, 1..n}

\* "ANSWER:\nParis"
BATCH_OUTPUT == ANSWER_MARK \o <<NL>> \o PARIS

\* what the calls of a batch of n questions do, one outcome per question
BatchOracles(n) ==
    IF n = 1 THEN [1..1 -> AskOutcomes]
    ELSE {[i \in 1..n |-> IF i \in raising THEN Raise("generation failed")
                                            ELSE Return(StrVal(BATCH_OUTPUT))] :
             raising \in RaisingSets(n)}

\* the positions of a batch of n that hold a whitespace-only question
BlankSets(n) == IF n = 0 THEN {{}} ELSE {{}, {1}, {n}}

\* question texts: empty, whitespace only, and a real question
QuestionTexts == {<<>>, <<" ", "\t">>, <<"q", "1">>}

Digits == <<"1", "2", "3", "4", "5", "6", "7", "8", "9", "a", "b", "c", "d">>

\* a batch of n questions, pairwise different; those at the positions in
\* `blank` are whitespace only
BatchQuestions(n, blank) ==
    [i \in 1..n |-> IF i \in blank THEN [j \in 1..i |-> " "] ELSE <<"q", Digits[i]>>]

\* the orders in which a search can rank n vectors
Rankings(n) == {r \in [1..n -> 1..n] : \A i, j \in 1..n : i # j => r[i] # r[j]}

NoRequest == [op |-> "none", request |-> EmptyDict, response |-> EmptyDict, calls |-> <<>>]

(***************************************************************************)
(* The state machine.                                                      *)
(***************************************************************************)
Init ==
    /\ main \in {"server", "model"}
    /\ started = FALSE
    /\ rag_system_ready = FALSE
    /\ chroma_exists \in IF main = "server" THEN BOOLEAN ELSE {FALSE}
    /\ rag \in IF main = "model"
               THEN {NewRag([i \in 1..n |-> i]) : n \in 0..MaxData}
               ELSE {NewRag(<<>>)}
    /\ history = [index_at_startup |-> chroma_exists, build_succeeded |-> FALSE,
                   build_failed |-> FALSE]
    /\ last = NoRequest

Idle == last = NoRequest

Serving == main = "server" /\ started /\ Idle

\* uvicorn runs lifespan before the first request
Startup ==
    /\ main = "server" /\ ~started /\ Idle
    /\ started' = TRUE
    /\ rag_system_ready' = lifespan
    /\ UNCHANGED <<main, chroma_exists, rag, history, last>>

Health ==
    /\ Serving
    /\ last' = [op |-> "health", request |-> EmptyDict, response |-> health_check,
                calls |-> <<>>]
    /\ UNCHANGED <<main, started, rag_system_ready, chroma_exists, rag, history>>

Build ==
    /\ Serving
    /\ \E outcome \in BuildOutcomes :
        LET r == build_vector_database(outcome)
        IN  /\ rag_system_ready' = r.ready
            /\ chroma_exists' = ChromaAfterBuild(outcome)
            /\ history' = IF outcome = "built"
                          THEN [history EXCEPT !.build_succeeded = TRUE]
                          ELSE [history EXCEPT !.build_failed = TRUE]
            /\ last' = [op |-> "build", request |-> [outcome |-> outcome],
                        response |-> r.response,
                        calls |-> <<[fn |-> "build_database", arg |-> <<>>,
                                     raised |-> outcome # "built"]>>]
    /\ UNCHANGED <<main, started, rag>>

AskWith(questions, types, outcomes) ==
    /\ Serving
    /\ \E question \in questions, type \in types, outcome \in outcomes :
        LET request == [question |-> question, type |-> type]
            r == ask_question(request, outcome)
        IN  last' = [op |-> "ask", request |-> request, response |-> r.response,
                     calls |-> r.calls]
    /\ UNCHANGED <<main, started, rag_system_ready, chroma_exists, rag, history>>

Ask == AskWith(QuestionTexts, Types, AskOutcomes)

\* oracles[n]: the outcomes the calls of a batch of n questions are drawn from
AskBatchWith(sizes, types, oracles) ==
    /\ Serving
    /\ \E n \in sizes, type \in types :
       \E blank \in BlankSets(n) :
       \E oracle \in oracles[n] :
        LET request == [questions |-> BatchQuestions(n, blank), type |-> type]
            r == ask_batch_questions(request, oracle)
        IN  last' = [op |-> "ask_batch", request |-> request, response |-> r.response,
                     calls |-> r.calls]
    /\ UNCHANGED <<main, started, rag_system_ready, chroma_exists, rag, history>>

AskBatch ==
    AskBatchWith(0..(MAX_BATCH + BatchOver), Types,
                 [n \in 0..(MAX_BATCH + BatchOver) |-> BatchOracles(n)])

Search ==
    /\ Serving
    /\ \E query \in QuestionTexts, outcome \in SearchOutcomes :
        LET request == [query |-> query]
            r == search_documents(request, outcome)
        IN  last' = [op |-> "search", request |-> request, response |-> r.response,
                     calls |-> r.calls]
    /\ UNCHANGED <<main, started, rag_system_ready, chroma_exists, rag, history>>

CreateIndex ==
    /\ main = "model" /\ Idle
    /\ \E norms \in [1..Len(rag.dataset) -> 1..MaxNorm] :
        LET r == create_vector_index(rag, norms)
        IN  /\ rag' = r.self
            /\ last' = [op |-> "create_vector_index", request |-> [norms |-> norms],
                        response |-> r.response, calls |-> <<>>]
    /\ UNCHANGED <<main, started, rag_system_ready, chroma_exists, history>>

Retrieve ==
    /\ main = "model" /\ Idle
    /\ \E query \in {"x", "y"}, k \in 1..MaxK, norm \in 1..MaxNorm :
       \E ranking \in Rankings(Len(rag.index.vectors)) :
        LET r == retrieve_similar_problems(rag, query, k, norm, ranking)
        IN  last' = [op |-> "retrieve",
                     request |-> [query |-> query, k |-> k, norm |-> norm],
                     response |-> r.response, calls |-> r.calls]
    /\ UNCHANGED <<main, started, rag_system_ready, chroma_exists, rag, history>>

\* the response is handed to the caller; the next request can begin
Complete ==
    /\ ~Idle
    /\ last' = NoRequest
    /\ UNCHANGED <<main, started, rag_system_ready, chroma_exists, rag, history>>

Next ==
    \/ Startup
    \/ Health
    \/ Build
    \/ Ask
    \/ AskBatch
    \/ Search
    \/ CreateIndex
    \/ Retrieve
    \/ Complete

Spec == Init /\ [][Next]_vars

(***************************************************************************)
(* The standard-mode parser over every raw output of up to MaxLines lines: *)
(* the server started on a persisted index, answering standard questions   *)
(* singly and in batches of one.                                           *)
(***************************************************************************)
InitParse ==
    /\ main = "server"
    /\ started = TRUE
    /\ rag_system_ready = TRUE
    /\ chroma_exists = TRUE
    /\ rag = NewRag(<<>>)
    /\ history = [index_at_startup |-> TRUE, build_succeeded |-> FALSE,
                   build_failed |-> FALSE]
    /\ last = NoRequest

AskStandard == AskWith({<<"q", "1">>}, {"standard", "other"}, ParseOutcomes)

AskBatchOfOne ==
    AskBatchWith({1}, {"standard", None}, [n \in {1} |-> [1..n -> ParseOutcomes]])

NextParse ==
    \/ AskStandard
    \/ AskBatchOfOne
    \/ Complete

SpecParse == InitParse /\ [][NextParse]_vars

(***************************************************************************)
(* Properties of the batch endpoint.                                       *)
(***************************************************************************)
\* the call made for the i-th question of the batch raised
RaisedFor(i) ==
    \E j \in DOMAIN last.calls :
        last.calls[j].arg = last.request.questions[i] /\ last.calls[j].raised

\* C1: an accepted batch of N questions yields exactly N entries, entry i carries
\* question i, the entries of the questions whose retrieval or generation
\* raised have success = false and an error, and all other entries have
\* success = true.
C1_BatchFaultIsolated ==
    (last.op = "ask_batch" /\ last.response.kind = "BatchResponse") =>
        LET qs == last.request.questions
            res == last.response.results
        IN  /\ Len(res) = Len(qs)
            /\ \A i \in 1..Len(qs) :
                /\ res[i].question = qs[i]
                /\ RaisedFor(i) => (~res[i].success /\ "error" \in DOMAIN res[i])
                /\ ~RaisedFor(i) => res[i].success

\* C2, as claimed: a batch of zero or of more than 10 questions is answered with
\* HTTP 400 and no call is made; a batch of exactly 10 questions is accepted.
C2_BatchBoundsAlways ==
    last.op = "ask_batch" =>
        LET n == Len(last.request.questions)
        IN  /\ (n = 0 \/ n > 10) =>
                (/\ last.response.kind = "HTTPException"
                 /\ last.response.status_code = 400
                 /\ last.calls = <<>>)
            /\ n = 10 => last.response.kind = "BatchResponse"

\* C2, amended: while the system is ready, a batch of zero or of more than 10
\* questions is answered with HTTP 400 and no call is made, and a batch of 1 to 10
\* questions is accepted with one entry per question; while it is not ready,
\* every batch is answered with HTTP 503 and no call is made.
C2_BatchBoundsWhenReady ==
    last.op = "ask_batch" =>
        LET n == Len(last.request.questions)
        IN  IF rag_system_ready
            THEN /\ (n = 0 \/ n > 10) =>
                     (/\ last.response.kind = "HTTPException"
                      /\ last.response.status_code = 400
                      /\ last.calls = <<>>)
                 /\ (n >= 1 /\ n <= 10) =>
                     (/\ last.response.kind = "BatchResponse"
                      /\ last.response.total_questions = n
                      /\ Len(last.response.results) = n)
            ELSE /\ last.response.kind = "HTTPException"
                 /\ last.response.status_code = 503
                 /\ last.calls = <<>>

\* a ready system has refused a batch of 11 questions
C2_Witness ==
    /\ last.op = "ask_batch"
    /\ rag_system_ready
    /\ Len(last.request.questions) = 11
    /\ last.response.kind = "HTTPException"
    /\ last.response.status_code = 400

(***************************************************************************)
(* Properties of the single-question endpoint.                             *)
(***************************************************************************)
\* the server began without a persisted index and no build has been requested
NeverBuilt ==
    /\ main = "server" /\ started
    /\ ~history.index_at_startup
    /\ ~history.build_succeeded
    /\ ~history.build_failed

C6_AskFailureReturned ==
    last.op = "ask" =>
        \A j \in DOMAIN last.calls :
            last.calls[j].raised =>
                /\ last.response.kind = "QuestionResponse"
                /\ last.response.success = FALSE
                /\ last.response.question = last.request.question
                /\ last.response.error = last.calls[j].outcome.msg

(***************************************************************************)
(* Properties of the build endpoint.                                       *)
(***************************************************************************)
\* C10: after a build request whose build_database call failed, the readiness
\* flag is false.
C10_FailedBuildNotReady ==
    (last.op = "build" /\ last.response.kind = "HTTPException") => ~rag_system_ready

(***************************************************************************)
(* Properties of the standard-mode parser.                                 *)
(***************************************************************************)
\* a standard-mode question whose ask_questions call returned a str
StandardReturned ==
    /\ last.op \in {"ask", "ask_batch"}
    /\ Len(last.calls) = 1
    /\ last.calls[1].fn = "ask_questions"
    /\ ~last.calls[1].raised
    /\ last.calls[1].outcome.value.isStr

\* the request was reported as a success
ReportedSuccess ==
    IF last.op = "ask"
    THEN last.response.kind = "QuestionResponse" /\ last.response.success
    ELSE last.response.kind = "BatchResponse" /\ last.response.results[1].success

\* ... and a result dict was made from the str
ParsedStandard == StandardReturned /\ ReportedSuccess

\* the raw model output, and the result dict made from it
RawText == last.calls[1].outcome.value.text
ParsedResult ==
    IF last.op = "ask" THEN last.response.result ELSE last.response.results[1].result

\* the lines of a text, by the positions of its line breaks
BreaksOf(text) == {i \in 1..Len(text) : text[i] = NL}
NumLines(text) == Cardinality(BreaksOf(text)) + 1
KthBreak(text, k) ==
    CHOOSE i \in BreaksOf(text) : Cardinality({j \in BreaksOf(text) : j < i}) = k - 1
LineOf(text, k) ==
    SubSeq(text,
           IF k = 1 THEN 1 ELSE KthBreak(text, k - 1) + 1,
           IF k = NumLines(text) THEN Len(text) ELSE KthBreak(text, k) - 1)

\* the section a marker line opens; "" for a line that is no marker line
MarkerOf(line) ==
    IF StartsWith(line, ANSWER_MARK) THEN "answer"
    ELSE IF StartsWith(line, SOURCES_MARK) THEN "sources"
    ELSE IF StartsWith(line, EXCERPTS_MARK) THEN "excerpts"
    ELSE ""

\* the section active at line k: that of the last marker line before it
ActiveAt(text, k) ==
    LET ms == {j \in 1..(k - 1) : MarkerOf(LineOf(text, j)) # ""}
    IN  IF ms = {} THEN ""
        ELSE MarkerOf(LineOf(text, CHOOSE j \in ms : \A m \in ms : m <= j))

\* the lines of lines 1..k that belong to a section, each followed by a line break
RECURSIVE SectionText(_, _, _)
SectionText(text, sec, k) ==
    IF k = 0 THEN <<>>
    ELSE SectionText(text, sec, k - 1) \o
         (IF MarkerOf(LineOf(text, k)) = "" /\ ActiveAt(text, k) = sec
          THEN LineOf(text, k) \o <<NL>> ELSE <<>>)

\* t is s without its leading and trailing whitespace
IsStripOf(t, s) ==
    /\ t = <<>> \/ (t[1] \notin Whitespace /\ t[Len(t)] \notin Whitespace)
    /\ \E a \in 0..Len(s) :
        /\ a + Len(t) <= Len(s)
        /\ \A i \in 1..Len(t) : s[a + i] = t[i]
        /\ \A i \in 1..a : s[i] \in Whitespace
        /\ \A i \in (a + Len(t) + 1)..Len(s) : s[i] \in Whitespace

\* C3: in standard mode the lines are scanned in order, a marker line makes its
\* section the active one, every other line is appended to the active section,
\* lines before the first marker are dropped, and each section is returned
\* stripped; "ANSWER:\nParis\nSOURCES:\ndoc1\n" yields Paris, doc1 and "".
C3_ParserSections ==
    ParsedStandard =>
        LET n == NumLines(RawText)
        IN  /\ DOMAIN ParsedResult = {"answer", "sources", "excerpts"}
            /\ IsStripOf(ParsedResult.answer, SectionText(RawText, "answer", n))
            /\ IsStripOf(ParsedResult.sources, SectionText(RawText, "sources", n))
            /\ IsStripOf(ParsedResult.excerpts, SectionText(RawText, "excerpts", n))
            /\ RawText = SPEC_EXAMPLE =>
                ParsedResult = [answer |-> PARIS, sources |-> DOC1, excerpts |-> <<>>]

\* the example output has been parsed by ask_question
C3_Witness ==
    /\ ParsedStandard
    /\ last.op = "ask"
    /\ RawText = SPEC_EXAMPLE
    /\ ParsedResult.answer = PARIS

\* C4: when the raw output has no marker line, the result holds the whole raw
\* output under raw_output and the request is a success.
C4_RawOutputFallback ==
    (StandardReturned /\ last.request.type = "standard"
        /\ \A k \in 1..NumLines(RawText) : MarkerOf(LineOf(RawText, k)) = "") =>
        /\ ReportedSuccess
        /\ "raw_output" \in DOMAIN ParsedResult
        /\ ParsedResult.raw_output.text = RawText

(***************************************************************************)
(* Properties of the retriever.                                            *)
(***************************************************************************)
\* C7: for k >= 1 and an index of n entries the retriever returns exactly
\* min(n, k) results, each a different entry of the index.
C7_RetrieveMinNK ==
    (last.op = "retrieve" /\ ~rag.index.is_none) =>
        LET n == Len(rag.index.vectors)
        IN  /\ last.response.kind = "return"
            /\ Len(last.response.results) = Min(n, last.request.k)
            /\ \A i \in DOMAIN last.response.results :
                /\ last.response.results[i].label \in 0..(n - 1)
                /\ \A j \in DOMAIN last.response.results :
                    i # j => last.response.results[i].label # last.response.results[j].label

\* a vector prepared for the comparison: the embedding model's, of a text with
\* the "Question: " prefix, L2-normalized
Prepared(v) ==
    /\ v.norm = 1
    /\ v.model = MODEL_NAME
    /\ v.text.prefix = "Question: "

\* C8: every vector in the index and every query vector handed to the search
\* has been L2-normalized and was built with the same prefix and model.
C8_SamePreparation ==
    /\ \A i \in DOMAIN rag.index.vectors : Prepared(rag.index.vectors[i])
    /\ \A j \in DOMAIN last.calls :
        (last.op = "retrieve" /\ last.calls[j].fn = "search") => Prepared(last.calls[j].arg)

\* a query whose raw embedding was not of norm 1 has been searched in an index
C8_Witness ==
    /\ last.op = "retrieve"
    /\ last.request.norm > 1
    /\ Len(rag.index.vectors) > 1
    /\ Len(last.calls) = 2
    /\ last.response.kind = "return"

\* C9: retrieve_similar_problems before create_vector_index reports the
\* missing index without encoding or searching; ask, ask_batch and search on a
\* system that is not ready are refused before any call.
C9_AbsenceCheckedFirst ==
    /\ (last.op = "retrieve" /\ rag.index.is_none) =>
        (/\ last.response = [kind |-> "raise", exc |-> "ValueError"]
         /\ last.calls = <<>>)
    /\ (last.op \in {"ask", "ask_batch", "search"} /\ ~rag_system_ready) =>
        (/\ last.response.kind = "HTTPException"
         /\ last.response.detail = NOT_READY
         /\ last.calls = <<>>)

\* retrieve_similar_problems was called on an object without an index
C9_Witness ==
    /\ last.op = "retrieve"
    /\ rag.index.is_none
    /\ Len(rag.dataset) > 0
    /\ last.response.kind = "raise"

(***************************************************************************)
(* Blank questions.                                                        *)
(***************************************************************************)
\* a question that is empty or whitespace only
Blank(text) == \A i \in 1..Len(text) : text[i] \in Whitespace

\* C11: a blank question is surfaced as an invalid-input error without any
\* retrieval or generation call: HTTP 400 for a single ask and for a search
\* query on a ready system, and for each blank question of an accepted batch
\* an entry that is not a success, with no call made for that question.
C11_BlankIsInvalidInput ==
    /\ (last.op = "ask" /\ rag_system_ready /\ Blank(last.request.question)) =>
        (/\ last.response.kind = "HTTPException"
         /\ last.response.status_code = 400
         /\ last.calls = <<>>)
    /\ (last.op = "search" /\ rag_system_ready /\ Blank(last.request.query)) =>
        (/\ last.response.kind = "HTTPException"
         /\ last.response.status_code = 400
         /\ last.calls = <<>>)
    /\ (last.op = "ask_batch" /\ last.response.kind = "BatchResponse") =>
        \A i \in 1..Len(last.request.questions) :
            Blank(last.request.questions[i]) =>
                /\ ~last.response.results[i].success
                /\ \A j \in DOMAIN last.calls :
                    last.calls[j].arg # last.request.questions[i]

(***************************************************************************)
(* The readiness flag over whole runs of the server.                       *)
(***************************************************************************)
\* one step of the server, seen from the readiness flag
ReadinessStep ==
    /\ (main' = "server" /\ started') =>
        (rag_system_ready' <=>
            (history'.index_at_startup \/ history'.build_succeeded))
    /\ rag_system_ready => rag_system_ready'
    /\ last'.op \in {"ask", "ask_batch", "search"} =>
        rag_system_ready' = rag_system_ready

\* C12: after every step of a started server rag_system_ready is true exactly
\* when the index path existed at startup or a build has succeeded since; no
\* step changes the flag from true to false, and no ask, ask_batch or search
\* request changes it.
C12_ReadinessFlag == [][ReadinessStep]_vars

\* an ask is accepted on a server that started without an index, built one,
\* and then had a rebuild fail after the index was deleted
C12_Witness ==
    /\ last.op = "ask"
    /\ last.response.kind = "QuestionResponse"
    /\ rag_system_ready
    /\ ~history.index_at_startup
    /\ history.build_succeeded
    /\ history.build_failed
    /\ ~chroma_exists

(***************************************************************************)
(* Marker lines: the text after a marker, and markers that occur again.    *)
(***************************************************************************)
\* w occurs in s
Contains(s, w) ==
    \E a \in 0..(Len(s) - Len(w)) : \A i \in 1..Len(w) : s[a + i] = w[i]

\* lines a..b of a text, each followed by a line break
RECURSIVE LinesFrom(_, _, _)
LinesFrom(text, a, b) ==
    IF a > b THEN <<>> ELSE LineOf(text, a) \o <<NL>> \o LinesFrom(text, a + 1, b)

\* the last line that follows the marker line k before the next marker line
BlockEnd(text, k) ==
    LET ms == {j \in (k + 1)..NumLines(text) : MarkerOf(LineOf(text, j)) # ""}
    IN  IF ms = {} THEN NumLines(text)
        ELSE (CHOOSE j \in ms : \A m \in ms : j <= m) - 1

\* for the occurrences of a section's marker at lines k.., in order of
\* appearance: the lines that follow each occurrence, the marker line left out
RECURSIVE Accumulated(_, _, _)
Accumulated(text, sec, k) ==
    IF k > NumLines(text) THEN <<>>
    ELSE (IF MarkerOf(LineOf(text, k)) = sec
          THEN LinesFrom(text, k + 1, BlockEnd(text, k)) ELSE <<>>)
         \o Accumulated(text, sec, k + 1)

\* C13: a line that starts with a section marker is consumed whole, so each
\* section is made of the lines that follow the occurrences of its marker, in
\* order of appearance, and the text after a marker on the marker's own line
\* is in no section: "Paris" is in a section only if a line that is not a
\* marker line holds it.
C13_MarkerLineConsumed ==
    ParsedStandard =>
        /\ \A sec \in {"answer", "sources", "excerpts"} :
            /\ IsStripOf(ParsedResult[sec], Accumulated(RawText, sec, 1))
            /\ Contains(ParsedResult[sec], PARIS) =>
                \E k \in 1..NumLines(RawText) :
                    /\ MarkerOf(LineOf(RawText, k)) = ""
                    /\ Contains(LineOf(RawText, k), PARIS)
        /\ RawText = MARKER_EXAMPLE =>
            ParsedResult =
                [answer |-> DOC1 \o <<NL>> \o DOC2, sources |-> DOC1, excerpts |-> <<>>]

\* a batch question whose output has text after a marker and the ANSWER:
\* marker twice
C13_Witness ==
    /\ ParsedStandard
    /\ last.op = "ask_batch"
    /\ RawText = MARKER_EXAMPLE
    /\ ParsedResult.answer = DOC1 \o <<NL>> \o DOC2
    /\ ~Contains(ParsedResult.answer, PARIS)

====
